---- MODULE Spec2Model ----
(***************************************************************************)
(* Bookmark manager (React component + Supabase service layer + schema).   *)
(*                                                                         *)
(* The model has two halves:                                               *)
(*   - the remote store: auth accounts and session, the folders and        *)
(*     bookmarks tables with their constraints, row-level-security         *)
(*     policies, ON DELETE SET NULL and the on_auth_user_created trigger;  *)
(*   - the component: its React state (the mirror) and its async handlers. *)
(*     A handler runs synchronously up to an await of a remote call; the   *)
(*     store executes the call when it is issued and the handler resumes   *)
(*     in a later step with the state its closure captured when it was     *)
(*     invoked.                                                            *)
(***************************************************************************)
EXTENDS Integers, Sequences, FiniteSets, TLC

\* ------------------------------------------------------------------ bounds
MaxBookmarkId == 3
MaxFolderId == 3
MaxShareId == 2
MaxTasks == 2
MaxEvents == 1
MaxOps == 3
MaxUrlLen == 4
MaxViewLen == 3

\* --------------------------------------------------------------- constants
\* null (folder_id, share_id, currentUser, shareModal)
NULL == 0
\* the 'all' sentinel of selectedFolder
ALL == -1

Users == {1}
DefaultName == <<"All", " ", "Bookmarks">>

\* urlError / authError messages
ErrNone == ""
ErrEmptyUrl == "Please enter a URL"
ErrInvalidUrl == "Please enter a valid URL (must start with http:// or https://)"
ErrExists == "This bookmark already exists"
ErrAddFailed == "Failed to add bookmark. Please try again."

\* ---------------------------------------------------------------- helpers
Range(s) == {s[i] : i \in 1..Len(s)}

RECURSIVE Reverse(_)
Reverse(s) == IF s = <<>> THEN <<>> ELSE Reverse(Tail(s)) \o <<Head(s)>>

\* Array.prototype.filter / map / find
Filter(s, Keep(_)) == SelectSeq(s, Keep)

Map(s, F(_)) == [i \in 1..Len(s) |-> F(s[i])]

\* ------------------------------------------------------------------- URLs
\* A URL text is a sequence of tokens: words (letters) and the separators
\* ":", "//", "/", " ".
Words == {"http", "https", "httpbin", "ftp", "javascript", "a", "b"}
Separators == {":", "//", "/", " "}
SpecialSchemes == {"http", "https", "ftp"}

\* String.prototype.startsWith('http')
StartsWithHttp(s) == Len(s) > 0 /\ s[1] \in {"http", "https", "httpbin"}

\* String.prototype.trim, and the URL parser's stripping of leading and
\* trailing spaces
RECURSIVE TrimLeft(_)
TrimLeft(s) == IF s # <<>> /\ Head(s) = " " THEN TrimLeft(Tail(s)) ELSE s

\* no trimming at all
TrimNothing(s) == s

Trim(s) == Reverse(TrimLeft(Reverse(TrimLeft(s))))

RECURSIVE DropSlashes(_)
DropSlashes(s) ==
  IF s # <<>> /\ Head(s) \in {"//", "/"} THEN DropSlashes(Tail(s)) ELSE s

BadUrl == [ok |-> FALSE, protocol |-> "", href |-> <<>>]

\* new URL(text): scheme ":" then, for a special scheme, slashes, a host word,
\* an optional empty port, and a path ("/" when empty).
ParseUrl(text) ==
  LET u == Trim(text) IN
  IF ~(Len(u) >= 2 /\ u[1] \in Words /\ u[2] = ":") THEN BadUrl
  ELSE
    LET scheme == u[1]
        rest == SubSeq(u, 3, Len(u)) IN
    IF scheme \notin SpecialSchemes
      THEN [ok |-> TRUE, protocol |-> scheme, href |-> u]
    ELSE
      LET auth == DropSlashes(rest) IN
      IF auth = <<>> \/ Head(auth) \notin Words THEN BadUrl
      ELSE
        LET host == Head(auth)
            after == Tail(auth)
            \* ":" with nothing before the path is an empty port
            noPort == IF after # <<>> /\ Head(after) = ":" THEN Tail(after) ELSE after
            path == IF noPort = <<>> THEN <<"/">> ELSE noPort IN
        IF noPort # <<>> /\ Head(noPort) \notin {"//", "/"} THEN BadUrl
        ELSE [ok |-> TRUE, protocol |-> scheme,
              href |-> <<scheme, ":", "//", host>> \o path]

WithScheme(urlString) ==
  IF StartsWithHttp(urlString) THEN urlString ELSE <<"https", ":", "//">> \o urlString

isValidUrl(urlString) ==
  LET url == ParseUrl(WithScheme(urlString)) IN
  url.ok /\ url.protocol \in {"http", "https"}

\* null is modelled as the empty text
normalizeUrl(urlString) ==
  LET url == ParseUrl(WithScheme(urlString)) IN
  IF url.ok THEN url.href ELSE <<>>

\* what the user may type into the URL field
UrlInputs ==
  { <<"a">>, <<"https", ":", "//", "a">>, <<"b">>, <<" ">>, <<"httpbin">> }

\* the urlError handleAddBookmark's local validation sets
ValidationError(urlInput) ==
  IF Trim(urlInput) = <<>> THEN ErrEmptyUrl
  ELSE IF ~isValidUrl(urlInput) THEN ErrInvalidUrl
  ELSE ErrNone

\* ------------------------------------------------------- filter and search
\* Titles, urls, tags and the search query are sequences of characters. A
\* description is <<>> when null and <<text>> otherwise; tags is an array (the
\* column's default is '{}').
ToLowerCase(text) == [i \in 1..Len(text) |-> IF text[i] = "A" THEN "a" ELSE text[i]]

\* String.prototype.includes
RECURSIVE Includes(_, _)
Includes(text, query) ==
  \/ (Len(query) <= Len(text) /\ SubSeq(text, 1, Len(query)) = query)
  \/ (text # <<>> /\ Includes(Tail(text), query))

\* only the 'all' sentinel counts
IsAllBookmarksFolderSentinelOnly(fs, sel) == sel = ALL

\* selectedFolderObj?.is_default || selectedFolder === 'all'
IsAllBookmarksFolder(fs, sel) ==
  \/ \E k \in 1..Len(fs) :
       /\ fs[k].id = sel
       /\ \A j \in 1..(k - 1) : fs[j].id # sel
       /\ fs[k].is_default
  \/ sel = ALL

\* filter by folder (skipped if "All Bookmarks" is selected)
FolderStep(bs, fs, sel) ==
  IF ~IsAllBookmarksFolder(fs, sel)
    THEN Filter(bs, LAMBDA b : b.folder_id = sel)
    ELSE bs

\* a match that does not look at the tags
TextMatchesWithoutTags(b, query) ==
  \/ Includes(ToLowerCase(b.title), query)
  \/ (b.description # <<>> /\ Includes(ToLowerCase(b.description[1]), query))
  \/ Includes(ToLowerCase(b.url), query)

\* the predicate of the search filter
TextMatches(b, query) ==
  \/ Includes(ToLowerCase(b.title), query)
  \/ (b.description # <<>> /\ Includes(ToLowerCase(b.description[1]), query))
  \/ Includes(ToLowerCase(b.url), query)
  \/ \E k \in 1..Len(b.tags) : Includes(ToLowerCase(b.tags[k]), query)

\* filter by search query
TextStep(bs, filterQuery) ==
  IF Trim(filterQuery) # <<>>
    THEN Filter(bs, LAMBDA b : TextMatches(b, ToLowerCase(filterQuery)))
    ELSE bs

filteredBookmarks(bs, fs, sel, filterQuery) ==
  TextStep(FolderStep(bs, fs, sel), filterQuery)

\* a dependency list that leaves folders out
MemoDepsWithoutFolders(bs, fs, sel, filterQuery) == <<bs, sel, filterQuery>>

\* useMemo's dependency list
MemoDeps(bs, fs, sel, filterQuery) == <<bs, sel, filterQuery, fs>>

\* useMemo: the cached value unless a dependency has changed
UseMemo(cache, bs, fs, sel, filterQuery) ==
  IF cache.deps = MemoDeps(bs, fs, sel, filterQuery)
    THEN cache
    ELSE [deps |-> MemoDeps(bs, fs, sel, filterQuery),
          value |-> filteredBookmarks(bs, fs, sel, filterQuery)]

\* useMemo on the first render
FirstMemo(bs, fs, sel, filterQuery) ==
  [deps |-> MemoDeps(bs, fs, sel, filterQuery),
   value |-> filteredBookmarks(bs, fs, sel, filterQuery)]

\* ------------------------------------------------------------ remote store
VARIABLES
  accounts,       \* auth.users
  session,        \* the Supabase client's session user, NULL when signed out
  triggerOn,      \* whether section 7 of the schema (the trigger) is installed
  dbFolders,      \* folders table, in created_at order
  dbBookmarks,    \* bookmarks table, in created_at order
  nextFolderId, nextBookmarkId

\* a failed call: ok = FALSE and err says why
Res(ok, err, rows) == [ok |-> ok, err |-> err, rows |-> rows, user |-> NULL, flag |-> FALSE]

\* a response that carries a user (null: 0) or a boolean instead of rows
ResUser(user) == [Res(TRUE, "", <<>>) EXCEPT !.user = user]
ResFlag(flag) == [Res(TRUE, "", <<>>) EXCEPT !.flag = flag]

\* RLS: "Users can view own bookmarks", "Anyone can view shared bookmarks"
BookmarkVisible(b, uid) == b.user_id = uid \/ b.share_id # NULL

FolderExists(fs, id) == \E i \in 1..Len(fs) : fs[i].id = id

\* foldersService.getAll: eq user_id, order created_at ascending, under RLS
FoldersGetAll(fs, sess, userId) ==
  Filter(fs, LAMBDA f : f.user_id = userId /\ f.user_id = sess)

\* bookmarksService.getAll: eq user_id, order created_at descending, under RLS
BookmarksGetAll(bs, sess, userId) ==
  Reverse(Filter(bs, LAMBDA b : b.user_id = userId /\ BookmarkVisible(b, sess)))

\* a lookup that sees only the rows the "shared bookmarks" policy lets through
CheckDuplicateSharedOnly(bs, sess, userId, url) ==
  \E i \in 1..Len(bs) :
    bs[i].user_id = userId /\ bs[i].url = url /\ bs[i].share_id # NULL

\* bookmarksService.checkDuplicate
CheckDuplicate(bs, sess, userId, url) ==
  \E i \in 1..Len(bs) :
    bs[i].user_id = userId /\ bs[i].url = url /\ BookmarkVisible(bs[i], sess)

\* INSERT into folders: RLS WITH CHECK auth.uid() = user_id
FolderInsertError(sess, folder) ==
  IF sess = NULL \/ folder.user_id # sess THEN "rls" ELSE ""

\* INSERT into bookmarks: RLS, UNIQUE(user_id, url), folder_id foreign key
BookmarkInsertError(bs, fs, sess, bookmark) ==
  IF sess = NULL \/ bookmark.user_id # sess THEN "rls"
  ELSE IF \E i \in 1..Len(bs) :
            bs[i].user_id = bookmark.user_id /\ bs[i].url = bookmark.url
    THEN "duplicate key value violates unique constraint"
  ELSE IF bookmark.folder_id # NULL /\ ~FolderExists(fs, bookmark.folder_id)
    THEN "violates foreign key constraint"
  ELSE ""

\* UPDATE bookmarks ... eq id, select().single(): RLS USING auth.uid() =
\* user_id hides other owners' rows, and single() fails on zero rows
BookmarkUpdateError(bs, fs, sess, id, updates) ==
  IF ~\E i \in 1..Len(bs) : bs[i].id = id /\ bs[i].user_id = sess
    THEN "JSON object requested, multiple (or no) rows returned"
  ELSE IF updates.field = "folder_id" /\ updates.value # NULL
          /\ ~FolderExists(fs, updates.value)
    THEN "violates foreign key constraint"
  ELSE ""

\* update_updated_at_column(), BEFORE UPDATE ON bookmarks: NEW.updated_at =
\* NOW(); a row's updated_at counts the updates it has had
Touch(b) == [b EXCEPT !.updated_at = @ + 1]

ApplyUpdates(b, updates) ==
  Touch(IF updates.field = "tags" THEN [b EXCEPT !.tags = updates.tags]
        ELSE IF updates.field = "is_private" THEN [b EXCEPT !.is_private = updates.flag]
        ELSE [b EXCEPT ![updates.field] = updates.value])

BookmarksAfterUpdate(bs, id, updates) ==
  Map(bs, LAMBDA b : IF b.id = id THEN ApplyUpdates(b, updates) ELSE b)

\* DELETE from bookmarks eq id, under RLS
BookmarksAfterDelete(bs, sess, id) ==
  Filter(bs, LAMBDA b : ~(b.id = id /\ b.user_id = sess))

\* DELETE from folders eq id, under RLS
FoldersAfterDelete(fs, sess, id) ==
  Filter(fs, LAMBDA f : ~(f.id = id /\ f.user_id = sess))

\* folder_id UUID REFERENCES folders(id) ON DELETE SET NULL
BookmarksAfterFolderDelete(bs, fs, sess, id) ==
  IF \E i \in 1..Len(fs) : fs[i].id = id /\ fs[i].user_id = sess
    THEN Map(bs, LAMBDA b : IF b.folder_id = id THEN Touch([b EXCEPT !.folder_id = NULL])
                            ELSE b)
    ELSE bs

\* create_default_folder(), AFTER INSERT ON auth.users
TriggerFolder(id, userId) ==
  [id |-> id, user_id |-> userId, name |-> <<"All", " ", "Bookmarks">>, is_default |-> TRUE]

\* a remote call that creates nothing, for a handler step that issues none
NoCall == [op |-> "none"]

NetworkError == "Failed to fetch"

\* The store's execution of one remote call `c` issued under the current
\* session. `net` = FALSE is a transport failure: nothing happens in the store.
\* The result holds the response (res), the tables and auth state after the
\* call, and the auth-state events the client library emits for it.
StoreAfter(c, net) ==
  LET same == [res |-> Res(TRUE, "", <<>>), accounts |-> accounts, session |-> session,
               dbFolders |-> dbFolders, dbBookmarks |-> dbBookmarks,
               nextFolderId |-> nextFolderId, nextBookmarkId |-> nextBookmarkId,
               events |-> <<>>]
      failed(err) == [same EXCEPT !.res = Res(FALSE, err, <<>>)]
  IN
  IF c.op = "none" THEN same
  ELSE IF ~net THEN failed(NetworkError)
  ELSE IF c.op = "getUser" THEN [same EXCEPT !.res = ResUser(session)]
  ELSE IF c.op = "signIn" THEN
    IF c.user \notin accounts THEN failed("Invalid login credentials")
    ELSE [same EXCEPT !.res = ResUser(c.user), !.session = c.user,
                      !.events = <<c.user>>]
  ELSE IF c.op = "signUp" THEN
    IF c.user \in accounts THEN failed("User already registered")
    ELSE IF triggerOn /\ nextFolderId > MaxFolderId THEN failed(NetworkError)
    ELSE [same EXCEPT !.res = ResUser(c.user),
                      !.accounts = accounts \cup {c.user},
                      !.session = c.user,
                      !.events = <<c.user>>,
                      !.dbFolders = IF triggerOn
                                      THEN Append(dbFolders, TriggerFolder(nextFolderId, c.user))
                                      ELSE dbFolders,
                      !.nextFolderId = IF triggerOn THEN nextFolderId + 1 ELSE nextFolderId]
  ELSE IF c.op = "signOut" THEN
    [same EXCEPT !.session = NULL, !.events = <<NULL>>]
  ELSE IF c.op = "folders.getAll" THEN
    [same EXCEPT !.res = Res(TRUE, "", FoldersGetAll(dbFolders, session, c.user))]
  ELSE IF c.op = "folders.create" THEN
    LET err == FolderInsertError(session, c.row)
        row == [id |-> nextFolderId, user_id |-> c.row.user_id,
                name |-> c.row.name, is_default |-> c.row.is_default] IN
    IF err # "" THEN failed(err)
    ELSE IF nextFolderId > MaxFolderId THEN failed(NetworkError)
    ELSE [same EXCEPT !.res = Res(TRUE, "", <<row>>),
                      !.dbFolders = Append(dbFolders, row),
                      !.nextFolderId = nextFolderId + 1]
  ELSE IF c.op = "folders.delete" THEN
    [same EXCEPT !.dbFolders = FoldersAfterDelete(dbFolders, session, c.id),
                 !.dbBookmarks = BookmarksAfterFolderDelete(dbBookmarks, dbFolders, session, c.id)]
  ELSE IF c.op = "bookmarks.getAll" THEN
    [same EXCEPT !.res = Res(TRUE, "", BookmarksGetAll(dbBookmarks, session, c.user))]
  ELSE IF c.op = "bookmarks.checkDuplicate" THEN
    [same EXCEPT !.res = ResFlag(CheckDuplicate(dbBookmarks, session, c.user, c.url))]
  ELSE IF c.op = "bookmarks.create" THEN
    LET err == BookmarkInsertError(dbBookmarks, dbFolders, session, c.row)
        row == [id |-> nextBookmarkId, user_id |-> c.row.user_id,
                folder_id |-> c.row.folder_id, url |-> c.row.url,
                share_id |-> NULL, is_private |-> c.row.is_private,
                tags |-> c.row.tags, updated_at |-> 0] IN
    IF err # "" THEN failed(err)
    ELSE IF nextBookmarkId > MaxBookmarkId THEN failed(NetworkError)
    ELSE [same EXCEPT !.res = Res(TRUE, "", <<row>>),
                      !.dbBookmarks = Append(dbBookmarks, row),
                      !.nextBookmarkId = nextBookmarkId + 1]
  ELSE IF c.op = "bookmarks.update" THEN
    LET err == BookmarkUpdateError(dbBookmarks, dbFolders, session, c.id, c.updates)
        after == BookmarksAfterUpdate(dbBookmarks, c.id, c.updates) IN
    IF err # "" THEN failed(err)
    ELSE [same EXCEPT !.res = Res(TRUE, "", Filter(after, LAMBDA b : b.id = c.id)),
                      !.dbBookmarks = after]
  ELSE IF c.op = "bookmarks.delete" THEN
    [same EXCEPT !.dbBookmarks = BookmarksAfterDelete(dbBookmarks, session, c.id)]
  ELSE same

\* ------------------------------------------------------------- the client
VARIABLES
  currentUser, bookmarks, folders, selectedFolder, shareModal, loading,
  urlError, isLoadingMetadata, authError, authLoading,
  nextGenerated,  \* generateShareId: the next fresh share id
  authEvents,     \* auth-state events not yet delivered to the listener
  tasks,          \* the async handlers awaiting a remote call
  \* history, for stating the properties
  ev,             \* what the last step was
  hShare,         \* per bookmark id: share_id update calls issued, ids shown
  hLoaded,        \* the mirror comes from a loadUserData that succeeded
  hOnboarded,     \* owners whose first login or signup ran to its end
  opCount,        \* user operations started so far
  filterQuery,    \* the search box
  memo,           \* useMemo's cache of filteredBookmarks: its deps and value
  \* a text put to isValidUrl / normalizeUrl / the add form's validation
  urlString,
  urlChecked      \* what they returned for it, NotChecked before

storeVars == <<accounts, session, triggerOn, dbFolders, dbBookmarks,
               nextFolderId, nextBookmarkId>>
mirrorVars == <<currentUser, bookmarks, folders, selectedFolder, shareModal,
                loading, urlError, isLoadingMetadata, authError, authLoading>>
vars == <<storeVars, mirrorVars, nextGenerated, authEvents, tasks,
          ev, hShare, hLoaded, hOnboarded, opCount,
          filterQuery, memo, urlString, urlChecked>>

NotChecked == [done |-> FALSE, valid |-> FALSE, href |-> <<>>, error |-> ErrNone]

\* the component renders again after a handler's state changes: useMemo
\* re-evaluates filteredBookmarks if a dependency changed
Render == memo' = UseMemo(memo, bookmarks', folders', selectedFolder', filterQuery')

Rerender == UNCHANGED <<filterQuery, urlString, urlChecked>> /\ Render

NoUpdates == [field |-> "", value |-> NULL, flag |-> FALSE, tags |-> <<>>]

\* the updates object of bookmarksService.update: one column and its new
\* value, an id (value), a boolean (flag) or an array of tags
SetValue(field, value) == [NoUpdates EXCEPT !.field = field, !.value = value]
SetFlag(field, flag) == [NoUpdates EXCEPT !.field = field, !.flag = flag]
SetTags(tags) == [NoUpdates EXCEPT !.field = "tags", !.tags = tags]

\* what the share modal holds: {...bookmark, share_id}; NoModal is null
Shared(bookmarkId, shareId) == [id |-> bookmarkId, share_id |-> shareId]
NoModal == Shared(NULL, NULL)

\* an async handler: where it awaits (pc), the state its closure captured
\* (user, sel, bm, fl), its arguments and locals, and the pending response
IdleTask ==
  [kind |-> "idle", pc |-> "", user |-> NULL, sel |-> ALL, bm |-> <<>>, fl |-> <<>>,
   id |-> NULL, updates |-> NoUpdates, url |-> <<>>, todo |-> <<>>,
   res |-> Res(TRUE, "", <<>>), dup |-> FALSE]

Slots == 1..MaxTasks
Idle(i) == tasks[i].kind = "idle"
HasFree == \E i \in Slots : Idle(i)
FreeSlot == CHOOSE i \in Slots : Idle(i) /\ \A j \in Slots : j < i => ~Idle(j)
Quiescent == (\A i \in Slots : Idle(i)) /\ authEvents = <<>>

Ev(op, pc, ok, err, id, n, dup) ==
  [op |-> op, pc |-> pc, ok |-> ok, err |-> err, id |-> id, n |-> n, dup |-> dup,
   input |-> <<>>]

\* a handler has been invoked on what the form held
Submitted(op, input) ==
  [Ev(op, "submit", TRUE, "", NULL, 0, FALSE) EXCEPT !.input = input]

\* a step no property below asks about
Quiet == Ev("", "", TRUE, "", NULL, 0, FALSE)

\* the store and the event queue after a call
Commit(out, queue) ==
  /\ accounts' = out.accounts
  /\ session' = out.session
  /\ dbFolders' = out.dbFolders
  /\ dbBookmarks' = out.dbBookmarks
  /\ nextFolderId' = out.nextFolderId
  /\ nextBookmarkId' = out.nextBookmarkId
  /\ authEvents' = queue \o out.events
  /\ UNCHANGED triggerOn

\* The database and browser session the page is opened on. The store outlives
\* the page: either nobody has signed up yet, or owner 1 has, and holds the
\* default folder, the folder "Work", a bookmark filed in it and an unfiled
\* one (what the sample data of the schema sets up), signed in or not.
UrlA == <<"https", ":", "//", "a", "/">>
UrlB == <<"https", ":", "//", "b", "/">>

Folder(id, userId, name, isDefault) ==
  [id |-> id, user_id |-> userId, name |-> name, is_default |-> isDefault]

Bookmark(id, userId, folderId, url) ==
  [id |-> id, user_id |-> userId, folder_id |-> folderId, url |-> url,
   share_id |-> NULL, is_private |-> FALSE, tags |-> <<>>, updated_at |-> 0]

EmptyStore(trigger) ==
  [accounts |-> {}, session |-> NULL, triggerOn |-> trigger,
   dbFolders |-> <<>>, dbBookmarks |-> <<>>, nextFolderId |-> 1, nextBookmarkId |-> 1]

SampleStore(sess) ==
  [accounts |-> {1}, session |-> sess, triggerOn |-> TRUE,
   dbFolders |-> <<Folder(1, 1, DefaultName, TRUE), Folder(2, 1, <<"Work">>, FALSE)>>,
   dbBookmarks |-> <<Bookmark(1, 1, 2, UrlA), Bookmark(2, 1, NULL, UrlB)>>,
   nextFolderId |-> 3, nextBookmarkId |-> 3]

InitialStores ==
  {EmptyStore(trigger) : trigger \in BOOLEAN} \cup {SampleStore(sess) : sess \in {NULL, 1}}

Init ==
  /\ \E store \in InitialStores :
       /\ accounts = store.accounts /\ session = store.session
       /\ triggerOn = store.triggerOn
       /\ dbFolders = store.dbFolders /\ dbBookmarks = store.dbBookmarks
       /\ nextFolderId = store.nextFolderId /\ nextBookmarkId = store.nextBookmarkId
  /\ currentUser = NULL /\ bookmarks = <<>> /\ folders = <<>>
  /\ selectedFolder = ALL /\ shareModal = NoModal /\ loading = TRUE
  /\ urlError = ErrNone /\ isLoadingMetadata = FALSE
  /\ authError = ErrNone /\ authLoading = FALSE
  /\ nextGenerated = 1
  /\ authEvents = <<>>
  \* useEffect: checkSession() has called authService.getCurrentUser()
  /\ tasks = [i \in Slots |->
                IF i = 1 THEN [IdleTask EXCEPT !.kind = "checkSession", !.pc = "getUser",
                                               !.res = ResUser(session)]
                ELSE IdleTask]
  /\ ev = Quiet
  /\ hShare = [b \in 1..MaxBookmarkId |-> [calls |-> 0, shown |-> <<>>]]
  /\ hLoaded = FALSE
  /\ hOnboarded = {}
  /\ opCount = 0
  /\ filterQuery = <<>>
  /\ memo = FirstMemo(bookmarks, folders, selectedFolder, filterQuery)
  /\ urlString = <<>> /\ urlChecked = NotChecked

\* ---------------------------------------------------------------- actions
\* Every action sets the store through Commit and names the rest.
SetTask(i, t) == tasks' = [tasks EXCEPT ![i] = t]

Await(t, pc, out) == [t EXCEPT !.pc = pc, !.res = out.res]

\* the page is (re)loaded: React state is initial again, the session persists
\* in the browser, and useEffect runs checkSession
Reload(seq) ==
  /\ seq => Quiescent
  /\ opCount < MaxOps
  /\ \E net \in BOOLEAN :
       LET out == StoreAfter([op |-> "getUser"], net) IN
       /\ Commit(out, <<>>)
       /\ tasks' = [i \in Slots |->
                      IF i = 1 THEN Await([IdleTask EXCEPT !.kind = "checkSession"], "getUser", out)
                      ELSE IdleTask]
  /\ currentUser' = NULL /\ bookmarks' = <<>> /\ folders' = <<>>
  /\ selectedFolder' = ALL /\ shareModal' = NoModal /\ loading' = TRUE
  /\ urlError' = ErrNone /\ isLoadingMetadata' = FALSE
  /\ authError' = ErrNone /\ authLoading' = FALSE
  /\ ev' = Quiet
  /\ hLoaded' = FALSE
  /\ UNCHANGED <<nextGenerated, hShare, hOnboarded>>
  /\ opCount' = opCount + 1
  /\ Rerender

\* loadUserData up to its first await: setLoading(true), foldersService.getAll
\* (the caller sets the rest of the mirror)
StartLoad(i, t, userId, net, queue) ==
  LET out == StoreAfter([op |-> "folders.getAll", user |-> userId], net) IN
  /\ Commit(out, queue)
  /\ SetTask(i, Await([t EXCEPT !.user = userId], "ld_folders", out))
  /\ loading' = TRUE

\* a caller that leaves authLoading as it is
AfterLoadKeepsAuthLoading(t) ==
  /\ UNCHANGED authLoading
  /\ hOnboarded' = IF t.kind = "login" /\ hLoaded' THEN hOnboarded \cup {t.user}
                   ELSE hOnboarded

\* what the caller of loadUserData does once it has returned
AfterLoad(t) ==
  /\ authLoading' = IF t.kind = "login" THEN FALSE ELSE authLoading
  /\ hOnboarded' = IF t.kind = "login" /\ hLoaded' THEN hOnboarded \cup {t.user}
                   ELSE hOnboarded

\* checkSession resumes from authService.getCurrentUser()
CheckSessionResume(i) ==
  LET t == tasks[i]
      user == IF t.res.ok THEN t.res.user ELSE NULL IN
  /\ t.kind = "checkSession" /\ t.pc = "getUser"
  /\ ev' = Quiet
  /\ IF user # NULL
       THEN /\ currentUser' = user
            /\ \E net \in BOOLEAN : StartLoad(i, t, user, net, authEvents)
       ELSE /\ loading' = FALSE
            /\ SetTask(i, IdleTask)
            /\ Commit(StoreAfter(NoCall, TRUE), authEvents)
            /\ UNCHANGED currentUser
  /\ hLoaded' = FALSE
  /\ UNCHANGED <<bookmarks, folders, selectedFolder, shareModal, urlError,
                 isLoadingMetadata, authError, authLoading, nextGenerated,
                 hShare, hOnboarded>>
  /\ UNCHANGED opCount
  /\ Rerender

\* the onAuthStateChange listener receives an event
AuthStateChange ==
  /\ authEvents # <<>>
  /\ LET user == Head(authEvents) IN
     /\ ev' = Ev("onAuthStateChange", "event", TRUE, "", user, 0, FALSE)
     /\ IF user # NULL
          THEN /\ HasFree
               /\ currentUser' = user
               /\ \E net \in BOOLEAN :
                    StartLoad(FreeSlot, [IdleTask EXCEPT !.kind = "listener"], user, net,
                              Tail(authEvents))
               /\ UNCHANGED <<bookmarks, folders>>
          ELSE /\ currentUser' = NULL
               /\ bookmarks' = <<>>
               /\ folders' = <<>>
               /\ Commit(StoreAfter(NoCall, TRUE), Tail(authEvents))
               /\ UNCHANGED <<tasks, loading>>
  /\ hLoaded' = FALSE
  /\ UNCHANGED <<selectedFolder, shareModal, urlError, isLoadingMetadata,
                 authError, authLoading, nextGenerated, hShare, hOnboarded>>
  /\ UNCHANGED opCount
  /\ Rerender

\* loadUserData resumes from foldersService.getAll
LoadFoldersResume(i) ==
  LET t == tasks[i] IN
  /\ t.kind \in {"checkSession", "login", "listener"} /\ t.pc = "ld_folders"
  /\ ev' = Ev("loadUserData", "ld_folders", t.res.ok, t.res.err, t.user, 0, FALSE)
  /\ hLoaded' = FALSE
  /\ IF ~t.res.ok
       THEN /\ loading' = FALSE
            /\ SetTask(i, IdleTask)
            /\ Commit(StoreAfter(NoCall, TRUE), authEvents)
            /\ AfterLoad(t)
            /\ UNCHANGED folders
       ELSE IF t.res.rows = <<>>
       THEN /\ \E net \in BOOLEAN :
                 LET out == StoreAfter([op |-> "folders.create",
                                        row |-> [user_id |-> t.user, name |-> DefaultName,
                                                 is_default |-> TRUE]], net) IN
                 /\ Commit(out, authEvents)
                 /\ SetTask(i, Await(t, "ld_create", out))
            /\ UNCHANGED <<folders, loading, authLoading, hOnboarded>>
       ELSE /\ folders' = t.res.rows
            /\ \E net \in BOOLEAN :
                 LET out == StoreAfter([op |-> "bookmarks.getAll", user |-> t.user], net) IN
                 /\ Commit(out, authEvents)
                 /\ SetTask(i, Await(t, "ld_bookmarks", out))
            /\ UNCHANGED <<loading, authLoading, hOnboarded>>
  /\ UNCHANGED <<currentUser, bookmarks, selectedFolder, shareModal, urlError,
                 isLoadingMetadata, authError, nextGenerated, hShare>>
  /\ UNCHANGED opCount
  /\ Rerender

\* loadUserData resumes from foldersService.create (the default folder)
LoadCreateResume(i) ==
  LET t == tasks[i] IN
  /\ t.kind \in {"checkSession", "login", "listener"} /\ t.pc = "ld_create"
  /\ ev' = Ev("loadUserData", "ld_create", t.res.ok, t.res.err, t.user, 0, FALSE)
  /\ hLoaded' = FALSE
  /\ IF ~t.res.ok
       THEN /\ loading' = FALSE
            /\ SetTask(i, IdleTask)
            /\ Commit(StoreAfter(NoCall, TRUE), authEvents)
            /\ AfterLoad(t)
            /\ UNCHANGED folders
       ELSE /\ folders' = t.res.rows
            /\ \E net \in BOOLEAN :
                 LET out == StoreAfter([op |-> "bookmarks.getAll", user |-> t.user], net) IN
                 /\ Commit(out, authEvents)
                 /\ SetTask(i, Await(t, "ld_bookmarks", out))
            /\ UNCHANGED <<loading, authLoading, hOnboarded>>
  /\ UNCHANGED <<currentUser, bookmarks, selectedFolder, shareModal, urlError,
                 isLoadingMetadata, authError, nextGenerated, hShare>>
  /\ UNCHANGED opCount
  /\ Rerender

\* loadUserData resumes from bookmarksService.getAll and returns
LoadBookmarksResume(i) ==
  LET t == tasks[i] IN
  /\ t.kind \in {"checkSession", "login", "listener"} /\ t.pc = "ld_bookmarks"
  /\ ev' = Ev("loadUserData", "ld_bookmarks", t.res.ok, t.res.err, t.user, 0, FALSE)
  /\ bookmarks' = IF t.res.ok THEN t.res.rows ELSE bookmarks
  /\ hLoaded' = t.res.ok
  /\ loading' = FALSE
  /\ SetTask(i, IdleTask)
  /\ Commit(StoreAfter(NoCall, TRUE), authEvents)
  /\ AfterLoad(t)
  /\ UNCHANGED <<currentUser, folders, selectedFolder, shareModal, urlError,
                 isLoadingMetadata, authError, nextGenerated, hShare>>
  /\ UNCHANGED opCount
  /\ Rerender

\* a user operation may start: with seq, only once everything before it has
\* run to completion
CanStart(seq) == HasFree /\ (seq => Quiescent) /\ opCount < MaxOps

\* the auth screen is rendered (not the spinner, not the main view)
AuthScreen == ~loading /\ currentUser = NULL
\* the main view is rendered and no modal overlay covers it
MainView == ~loading /\ currentUser # NULL /\ shareModal = NoModal

UnchangedStore == Commit(StoreAfter(NoCall, TRUE), authEvents)

\* handleAuth up to its first await; `user` is the account a non-empty
\* authEmail names
HandleAuth(seq, mode, user, authEmail, authPassword) ==
  /\ AuthScreen /\ ~authLoading /\ CanStart(seq)
  /\ Len(authEvents) < MaxEvents
  /\ ev' = Submitted("handleAuth", <<authEmail, authPassword>>)
  /\ IF authEmail = "" \/ authPassword = ""
       THEN /\ authError' = "Please fill in all fields"
            /\ authLoading' = FALSE
            /\ UnchangedStore
            /\ UNCHANGED tasks
       ELSE /\ authError' = ErrNone
            /\ authLoading' = TRUE
            /\ \E net \in BOOLEAN :
                 LET out == StoreAfter([op |-> mode, user |-> user], net) IN
                 /\ Commit(out, authEvents)
                 /\ SetTask(FreeSlot,
                            Await([IdleTask EXCEPT !.kind = IF mode = "signIn" THEN "login" ELSE "signup",
                                                   !.user = user], mode, out))
  /\ UNCHANGED <<currentUser, bookmarks, folders, selectedFolder, shareModal, loading,
                 urlError, isLoadingMetadata, nextGenerated, hShare, hLoaded, hOnboarded>>
  /\ opCount' = opCount + 1
  /\ Rerender

\* handleAuth (login) resumes from authService.signIn
SignInResume(i) ==
  LET t == tasks[i] IN
  /\ t.kind = "login" /\ t.pc = "signIn"
  /\ ev' = Ev("handleAuth", "signIn", t.res.ok, t.res.err, t.user, 0, FALSE)
  /\ IF t.res.ok
       THEN /\ currentUser' = t.res.user
            /\ \E net \in BOOLEAN : StartLoad(i, t, t.res.user, net, authEvents)
            /\ hLoaded' = FALSE
            /\ UNCHANGED <<authError, authLoading>>
       ELSE /\ authError' = t.res.err
            /\ authLoading' = FALSE
            /\ SetTask(i, IdleTask)
            /\ UnchangedStore
            /\ UNCHANGED <<currentUser, loading, hLoaded>>
  /\ UNCHANGED <<bookmarks, folders, selectedFolder, shareModal, urlError,
                 isLoadingMetadata, nextGenerated, hShare, hOnboarded>>
  /\ UNCHANGED opCount
  /\ Rerender

\* handleAuth (signup) resumes from authService.signUp
SignUpResume(i) ==
  LET t == tasks[i] IN
  /\ t.kind = "signup" /\ t.pc = "signUp"
  /\ ev' = Ev("handleAuth", "signUp", t.res.ok, t.res.err, t.user, 0, FALSE)
  /\ IF t.res.ok
       THEN /\ currentUser' = t.res.user
            /\ \E net \in BOOLEAN :
                 LET out == StoreAfter([op |-> "folders.create",
                                        row |-> [user_id |-> t.res.user, name |-> DefaultName,
                                                 is_default |-> TRUE]], net) IN
                 /\ Commit(out, authEvents)
                 /\ SetTask(i, Await(t, "su_create", out))
            /\ hLoaded' = FALSE
            /\ UNCHANGED <<authError, authLoading>>
       ELSE /\ authError' = t.res.err
            /\ authLoading' = FALSE
            /\ SetTask(i, IdleTask)
            /\ UnchangedStore
            /\ UNCHANGED <<currentUser, hLoaded>>
  /\ UNCHANGED <<bookmarks, folders, selectedFolder, shareModal, loading, urlError,
                 isLoadingMetadata, nextGenerated, hShare, hOnboarded>>
  /\ UNCHANGED opCount
  /\ Rerender

\* handleAuth (signup) resumes from foldersService.create
SignUpCreateResume(i) ==
  LET t == tasks[i] IN
  /\ t.kind = "signup" /\ t.pc = "su_create"
  /\ ev' = Ev("handleAuth", "su_create", t.res.ok, t.res.err, t.user, 0, FALSE)
  /\ folders' = IF t.res.ok THEN t.res.rows ELSE folders
  /\ authError' = IF t.res.ok THEN authError ELSE t.res.err
  /\ authLoading' = FALSE
  /\ hLoaded' = FALSE
  /\ hOnboarded' = IF t.res.ok THEN hOnboarded \cup {t.user} ELSE hOnboarded
  /\ SetTask(i, IdleTask)
  /\ UnchangedStore
  /\ UNCHANGED <<currentUser, bookmarks, selectedFolder, shareModal, loading, urlError,
                 isLoadingMetadata, nextGenerated, hShare>>
  /\ UNCHANGED opCount
  /\ Rerender

\* handleLogout up to its await of authService.signOut
HandleLogout(seq) ==
  /\ MainView /\ CanStart(seq)
  /\ Len(authEvents) < MaxEvents
  /\ ev' = Quiet
  /\ \E net \in BOOLEAN :
       LET out == StoreAfter([op |-> "signOut"], net) IN
       /\ Commit(out, authEvents)
       /\ SetTask(FreeSlot, Await([IdleTask EXCEPT !.kind = "logout"], "signOut", out))
  /\ UNCHANGED <<mirrorVars, nextGenerated, hShare, hLoaded, hOnboarded>>
  /\ opCount' = opCount + 1
  /\ Rerender

\* handleLogout resumes from authService.signOut
LogoutResume(i) ==
  LET t == tasks[i] IN
  /\ t.kind = "logout" /\ t.pc = "signOut"
  /\ ev' = Ev("handleLogout", "signOut", t.res.ok, t.res.err, NULL, 0, FALSE)
  /\ IF t.res.ok
       THEN /\ currentUser' = NULL /\ bookmarks' = <<>> /\ folders' = <<>>
            /\ selectedFolder' = ALL
            /\ hLoaded' = FALSE
       ELSE UNCHANGED <<currentUser, bookmarks, folders, selectedFolder, hLoaded>>
  /\ SetTask(i, IdleTask)
  /\ UnchangedStore
  /\ UNCHANGED <<shareModal, loading, urlError, isLoadingMetadata, authError, authLoading,
                 nextGenerated, hShare, hOnboarded>>
  /\ UNCHANGED opCount
  /\ Rerender

\* a test for the word as Postgres does not spell it
IncludesDuplicateCapitalised(message) ==
  message = "Duplicate key value violates unique constraint"

\* error.message?.includes('duplicate')
IncludesDuplicate(message) ==
  message = "duplicate key value violates unique constraint"

\* handleAddBookmark up to its first await (bookmarksService.checkDuplicate)
HandleAddBookmark(seq, urlInput) ==
  /\ MainView /\ ~isLoadingMetadata /\ CanStart(seq)
  /\ ev' = Submitted("handleAddBookmark", urlInput)
  /\ LET normalizedUrl == normalizeUrl(urlInput)
         dup == \E k \in 1..Len(dbBookmarks) :
                  dbBookmarks[k].user_id = currentUser /\ dbBookmarks[k].url = normalizedUrl
     IN
     IF ValidationError(urlInput) # ErrNone
       THEN /\ urlError' = ValidationError(urlInput)
            /\ UnchangedStore /\ UNCHANGED tasks
     ELSE /\ urlError' = ErrNone
          /\ \E net \in BOOLEAN :
               LET out == StoreAfter([op |-> "bookmarks.checkDuplicate", user |-> currentUser,
                                      url |-> normalizedUrl], net) IN
               /\ Commit(out, authEvents)
               /\ SetTask(FreeSlot,
                          Await([IdleTask EXCEPT !.kind = "addBookmark", !.user = currentUser,
                                                 !.sel = selectedFolder, !.bm = bookmarks,
                                                 !.url = normalizedUrl, !.dup = dup],
                                "checkDup", out))
  /\ UNCHANGED <<currentUser, bookmarks, folders, selectedFolder, shareModal, loading,
                 isLoadingMetadata, authError, authLoading, nextGenerated,
                 hShare, hLoaded, hOnboarded>>
  /\ opCount' = opCount + 1
  /\ Rerender

\* handleAddBookmark resumes from checkDuplicate; unless it reported a
\* duplicate, goes on through fetchUrlMetadata to bookmarksService.create
AddCheckedResume(i) ==
  LET t == tasks[i]
      isDuplicate == t.res.ok /\ t.res.flag IN
  /\ t.kind = "addBookmark" /\ t.pc = "checkDup"
  /\ ev' = Ev("handleAddBookmark", "checkDup", t.res.ok, t.res.err, NULL, 0, t.dup)
  /\ IF isDuplicate
       THEN /\ urlError' = ErrExists
            /\ SetTask(i, IdleTask)
            /\ UnchangedStore
            /\ UNCHANGED isLoadingMetadata
       ELSE /\ isLoadingMetadata' = TRUE
            /\ \E net \in BOOLEAN :
                 LET out == StoreAfter(
                       [op |-> "bookmarks.create",
                        row |-> [user_id |-> t.user, url |-> t.url,
                                 folder_id |-> IF t.sel = ALL THEN NULL ELSE t.sel,
                                 tags |-> <<>>, is_private |-> FALSE]], net) IN
                 /\ Commit(out, authEvents)
                 /\ SetTask(i, Await(t, "create", out))
            /\ UNCHANGED urlError
  /\ UNCHANGED <<currentUser, bookmarks, folders, selectedFolder, shareModal, loading,
                 authError, authLoading, nextGenerated, hShare, hLoaded, hOnboarded>>
  /\ UNCHANGED opCount
  /\ Rerender

\* the new record put at the tail
MirrorAfterAddAtTail(closure, res) == closure \o <<res.rows[1]>>

\* the bookmarks state after handleAddBookmark's create has resolved
MirrorAfterAdd(closure, res) == <<res.rows[1]>> \o closure

\* the urlError the catch block of handleAddBookmark sets
AddErrorMessage(message) ==
  IF IncludesDuplicate(message) THEN ErrExists ELSE ErrAddFailed

\* handleAddBookmark resumes from bookmarksService.create
AddCreatedResume(i) ==
  LET t == tasks[i] IN
  /\ t.kind = "addBookmark" /\ t.pc = "create"
  /\ ev' = Ev("handleAddBookmark", "create", t.res.ok, t.res.err,
              IF t.res.ok THEN t.res.rows[1].id ELSE NULL, 0, t.dup)
  /\ bookmarks' = IF t.res.ok THEN MirrorAfterAdd(t.bm, t.res) ELSE bookmarks
  /\ urlError' = IF t.res.ok THEN urlError ELSE AddErrorMessage(t.res.err)
  /\ isLoadingMetadata' = FALSE
  /\ SetTask(i, IdleTask)
  /\ UnchangedStore
  /\ UNCHANGED <<currentUser, folders, selectedFolder, shareModal, loading,
                 authError, authLoading, nextGenerated, hShare, hLoaded, hOnboarded>>
  /\ UNCHANGED opCount
  /\ Rerender

\* handleDeleteBookmark up to its await of bookmarksService.delete
HandleDeleteBookmark(seq, bookmarkId) ==
  /\ MainView /\ CanStart(seq)
  /\ \E k \in 1..Len(bookmarks) : bookmarks[k].id = bookmarkId
  /\ ev' = Quiet
  /\ \E net \in BOOLEAN :
       LET out == StoreAfter([op |-> "bookmarks.delete", id |-> bookmarkId], net) IN
       /\ Commit(out, authEvents)
       /\ SetTask(FreeSlot,
                  Await([IdleTask EXCEPT !.kind = "deleteBookmark", !.id = bookmarkId,
                                         !.bm = bookmarks], "bm_delete", out))
  /\ UNCHANGED <<mirrorVars, nextGenerated, hShare, hLoaded, hOnboarded>>
  /\ opCount' = opCount + 1
  /\ Rerender

\* a filter with its test inverted
MirrorAfterDeleteInverted(closure, bookmarkId) ==
  Filter(closure, LAMBDA b : b.id = bookmarkId)

\* setBookmarks(bookmarks.filter(b => b.id !== bookmarkId))
MirrorAfterDelete(closure, bookmarkId) ==
  Filter(closure, LAMBDA b : b.id # bookmarkId)

\* handleDeleteBookmark resumes from bookmarksService.delete
DeleteBookmarkResume(i) ==
  LET t == tasks[i] IN
  /\ t.kind = "deleteBookmark" /\ t.pc = "bm_delete"
  /\ ev' = Ev("handleDeleteBookmark", "bm_delete", t.res.ok, t.res.err, t.id, 0, FALSE)
  /\ bookmarks' = IF t.res.ok THEN MirrorAfterDelete(t.bm, t.id) ELSE bookmarks
  /\ SetTask(i, IdleTask)
  /\ UnchangedStore
  /\ UNCHANGED <<currentUser, folders, selectedFolder, shareModal, loading, urlError,
                 isLoadingMetadata, authError, authLoading, nextGenerated,
                 hShare, hLoaded, hOnboarded>>
  /\ UNCHANGED opCount
  /\ Rerender

\* handleUpdateBookmark up to its await of bookmarksService.update
StartUpdate(kind, bookmarkId, updates) ==
  \E net \in BOOLEAN :
    LET out == StoreAfter([op |-> "bookmarks.update", id |-> bookmarkId,
                           updates |-> updates], net) IN
    /\ Commit(out, authEvents)
    /\ SetTask(FreeSlot,
               Await([IdleTask EXCEPT !.kind = kind, !.id = bookmarkId,
                                      !.updates = updates, !.bm = bookmarks],
                     "bm_update", out))

\* a failed update takes the entry out of the mirror
MirrorAfterUpdateDropsOnFailure(current, closure, bookmarkId, res) ==
  IF res.ok
    THEN Map(closure, LAMBDA b : IF b.id = bookmarkId THEN res.rows[1] ELSE b)
    ELSE Filter(closure, LAMBDA b : b.id # bookmarkId)

\* a local merge: the changed fields without what the store computed
MirrorAfterUpdateMerged(current, closure, bookmarkId, res) ==
  IF res.ok
    THEN Map(closure, LAMBDA b : IF b.id = bookmarkId
                                   THEN [res.rows[1] EXCEPT !.updated_at = b.updated_at]
                                   ELSE b)
    ELSE current

\* the bookmarks state after handleUpdateBookmark's update has resolved
MirrorAfterUpdate(current, closure, bookmarkId, res) ==
  IF res.ok
    THEN Map(closure, LAMBDA b : IF b.id = bookmarkId THEN res.rows[1] ELSE b)
    ELSE current

\* handleTogglePrivacy
HandleTogglePrivacy(seq, bookmarkId) ==
  /\ MainView /\ CanStart(seq)
  /\ \E k \in 1..Len(bookmarks) :
       /\ bookmarks[k].id = bookmarkId
       /\ \A j \in 1..(k - 1) : bookmarks[j].id # bookmarkId
       /\ StartUpdate("update", bookmarkId,
                      SetFlag("is_private", ~bookmarks[k].is_private))
  /\ ev' = Quiet
  /\ UNCHANGED <<mirrorVars, nextGenerated, hShare, hLoaded, hOnboarded>>
  /\ opCount' = opCount + 1
  /\ Rerender

\* handleDragStart on a bookmark card, then handleDropOnFolder on a folder row
HandleDropOnFolder(seq, k, folderId) ==
  /\ MainView /\ CanStart(seq)
  /\ k \in 1..Len(bookmarks)
  /\ \E f \in 1..Len(folders) : folders[f].id = folderId
  /\ LET draggedBookmark == bookmarks[k] IN
     IF draggedBookmark.folder_id # folderId
       THEN /\ StartUpdate("update", draggedBookmark.id,
                           SetValue("folder_id", folderId))
            /\ ev' = Quiet
       ELSE /\ UnchangedStore /\ UNCHANGED tasks
            /\ ev' = Quiet
  /\ UNCHANGED <<mirrorVars, nextGenerated, hShare, hLoaded, hOnboarded>>
  /\ opCount' = opCount + 1
  /\ Rerender

\* the Set of getTagSuggestions, in insertion order
RECURSIVE AddAll(_, _)
AddAll(allTags, tags) ==
  IF tags = <<>> THEN allTags
  ELSE AddAll(IF Head(tags) \in Range(allTags) THEN allTags ELSE Append(allTags, Head(tags)),
              Tail(tags))

RECURSIVE AllTags(_, _)
AllTags(allTags, bs) ==
  IF bs = <<>> THEN allTags ELSE AllTags(AddAll(allTags, Head(bs).tags), Tail(bs))

getTagSuggestions(bs, currentTags) ==
  Filter(AllTags(<<>>, bs), LAMBDA tag : tag \notin Range(currentTags))

\* the test without the look into the bookmark's tags
MayAddTagNonEmpty(tags, tag) == tag # ""

\* tag && !bookmark.tags?.includes(tag)
MayAddTag(tags, tag) == tag # "" /\ tag \notin Range(tags)

\* BookmarkCard.handleAddTag: Enter in the tag input (picked = FALSE), or a
\* click on one of the suggestions the card was given
HandleAddTag(seq, bookmarkId, tag, picked) ==
  /\ MainView /\ CanStart(seq)
  /\ \E k \in 1..Len(bookmarks) :
       LET bookmark == bookmarks[k] IN
       /\ bookmark.id = bookmarkId
       /\ \A j \in 1..(k - 1) : bookmarks[j].id # bookmarkId
       /\ picked => tag \in Range(getTagSuggestions(bookmarks, bookmark.tags))
       /\ IF MayAddTag(bookmark.tags, tag)
            THEN StartUpdate("update", bookmarkId,
                             SetTags(Append(bookmark.tags, tag)))
            ELSE UnchangedStore /\ UNCHANGED tasks
  /\ ev' = Submitted("handleAddTag", <<tag>>)
  /\ UNCHANGED <<mirrorVars, nextGenerated, hShare, hLoaded, hOnboarded>>
  /\ opCount' = opCount + 1
  /\ Rerender

\* BookmarkCard.handleRemoveTag: the X of one of the card's tags
HandleRemoveTag(seq, bookmarkId, tag) ==
  /\ MainView /\ CanStart(seq)
  /\ \E k \in 1..Len(bookmarks) :
       LET bookmark == bookmarks[k] IN
       /\ bookmark.id = bookmarkId
       /\ \A j \in 1..(k - 1) : bookmarks[j].id # bookmarkId
       /\ tag \in Range(bookmark.tags)
       /\ StartUpdate("update", bookmarkId,
                      SetTags(Filter(bookmark.tags, LAMBDA t : t # tag)))
  /\ ev' = Submitted("handleRemoveTag", <<tag>>)
  /\ UNCHANGED <<mirrorVars, nextGenerated, hShare, hLoaded, hOnboarded>>
  /\ opCount' = opCount + 1
  /\ Rerender

\* handleUpdateBookmark resumes from bookmarksService.update
UpdateResume(i) ==
  LET t == tasks[i] IN
  /\ t.kind = "update" /\ t.pc = "bm_update"
  /\ ev' = Ev("handleUpdateBookmark", "bm_update", t.res.ok, t.res.err, t.id, 0, FALSE)
  /\ bookmarks' = MirrorAfterUpdate(bookmarks, t.bm, t.id, t.res)
  /\ SetTask(i, IdleTask)
  /\ UnchangedStore
  /\ UNCHANGED <<currentUser, folders, selectedFolder, shareModal, loading, urlError,
                 isLoadingMetadata, authError, authLoading, nextGenerated,
                 hShare, hLoaded, hOnboarded>>
  /\ UNCHANGED opCount
  /\ Rerender


\* the history of shares: one more id shown (the last two are kept)
Shown(h, shareId) ==
  [h EXCEPT !.shown = IF Len(h.shown) < 2 THEN Append(h.shown, shareId)
                      ELSE <<h.shown[2], shareId>>]

\* handleShareBookmark on the card of bookmarks[k]: with a share_id it opens
\* the modal at once, without one it generates an id and awaits the update
HandleShareBookmark(seq, k) ==
  /\ MainView /\ CanStart(seq)
  /\ k \in 1..Len(bookmarks)
  /\ LET bookmark == bookmarks[k] IN
     IF bookmark.share_id = NULL
       THEN /\ nextGenerated <= MaxShareId
            /\ nextGenerated' = nextGenerated + 1
            /\ StartUpdate("share", bookmark.id,
                           SetValue("share_id", nextGenerated))
            /\ hShare' = [hShare EXCEPT ![bookmark.id].calls = @ + 1]
            /\ ev' = Quiet
            /\ UNCHANGED shareModal
       ELSE /\ shareModal' = Shared(bookmark.id, bookmark.share_id)
            /\ hShare' = [hShare EXCEPT ![bookmark.id] = Shown(@, bookmark.share_id)]
            /\ ev' = Quiet
            /\ UnchangedStore
            /\ UNCHANGED <<tasks, nextGenerated>>
  /\ UNCHANGED <<currentUser, bookmarks, folders, selectedFolder, loading, urlError,
                 isLoadingMetadata, authError, authLoading, hLoaded, hOnboarded>>
  /\ opCount' = opCount + 1
  /\ Rerender

\* handleShareBookmark resumes: handleUpdateBookmark handles the response and
\* returns, then setShareModal
ShareResume(i) ==
  LET t == tasks[i] IN
  /\ t.kind = "share" /\ t.pc = "bm_update"
  /\ ev' = Ev("handleShareBookmark", "bm_update", t.res.ok, t.res.err, t.id, 0, FALSE)
  /\ bookmarks' = MirrorAfterUpdate(bookmarks, t.bm, t.id, t.res)
  /\ shareModal' = Shared(t.id, t.updates.value)
  /\ hShare' = [hShare EXCEPT ![t.id] = Shown(@, t.updates.value)]
  /\ SetTask(i, IdleTask)
  /\ UnchangedStore
  /\ UNCHANGED <<currentUser, folders, selectedFolder, loading, urlError,
                 isLoadingMetadata, authError, authLoading, nextGenerated,
                 hLoaded, hOnboarded>>
  /\ UNCHANGED opCount
  /\ Rerender

\* the share modal's Close button
CloseShareModal ==
  /\ ~loading /\ shareModal # NoModal
  /\ opCount < MaxOps
  /\ shareModal' = NoModal
  /\ ev' = Quiet
  /\ UnchangedStore
  /\ UNCHANGED <<currentUser, bookmarks, folders, selectedFolder, loading, urlError,
                 isLoadingMetadata, authError, authLoading, nextGenerated, tasks,
                 hShare, hLoaded, hOnboarded>>
  /\ opCount' = opCount + 1
  /\ Rerender

\* handleAddFolder up to its await of foldersService.create
HandleAddFolder(seq, folderNameInput) ==
  /\ MainView /\ CanStart(seq)
  /\ ev' = Submitted("handleAddFolder", folderNameInput)
  /\ IF Trim(folderNameInput) = <<>>
       THEN UnchangedStore /\ UNCHANGED tasks
       ELSE \E net \in BOOLEAN :
                 LET out == StoreAfter([op |-> "folders.create",
                                        row |-> [user_id |-> currentUser,
                                                 name |-> folderNameInput,
                                                 is_default |-> FALSE]], net) IN
                 /\ Commit(out, authEvents)
                 /\ SetTask(FreeSlot,
                            Await([IdleTask EXCEPT !.kind = "addFolder", !.fl = folders],
                                  "fl_create", out))
  /\ UNCHANGED <<mirrorVars, nextGenerated, hShare, hLoaded, hOnboarded>>
  /\ opCount' = opCount + 1
  /\ Rerender

\* the mirror emptied when the create fails
FoldersAfterAddClearedOnFailure(current, closure, res) ==
  IF res.ok THEN closure \o <<res.rows[1]>> ELSE <<>>

\* the folders state after handleAddFolder's create has resolved
FoldersAfterAdd(current, closure, res) ==
  IF res.ok THEN closure \o <<res.rows[1]>> ELSE current

\* handleAddFolder resumes from foldersService.create
AddFolderResume(i) ==
  LET t == tasks[i] IN
  /\ t.kind = "addFolder" /\ t.pc = "fl_create"
  /\ ev' = Ev("handleAddFolder", "fl_create", t.res.ok, t.res.err,
              IF t.res.ok THEN t.res.rows[1].id ELSE NULL, 0, FALSE)
  /\ folders' = FoldersAfterAdd(folders, t.fl, t.res)
  /\ SetTask(i, IdleTask)
  /\ UnchangedStore
  /\ UNCHANGED <<currentUser, bookmarks, selectedFolder, shareModal, loading, urlError,
                 isLoadingMetadata, authError, authLoading, nextGenerated,
                 hShare, hLoaded, hOnboarded>>
  /\ UNCHANGED opCount
  /\ Rerender

\* a guard that lets every folder through
IsDefaultFolderNever(fs, folderId) == FALSE

\* folders.find(f => f.id === folderId)?.is_default
IsDefaultFolder(fs, folderId) ==
  \E k \in 1..Len(fs) :
    /\ fs[k].id = folderId
    /\ \A j \in 1..(k - 1) : fs[j].id # folderId
    /\ fs[k].is_default

\* handleDeleteFolder's next remote call: the update of the next bookmark of
\* the folder, or the folder's delete once none is left
DeleteFolderCall(folderId, todo) ==
  IF todo # <<>>
    THEN [op |-> "bookmarks.update", id |-> Head(todo).id,
          updates |-> SetValue("folder_id", NULL)]
    ELSE [op |-> "folders.delete", id |-> folderId]

\* handleDeleteFolder up to its first await
HandleDeleteFolder(seq, folderId) ==
  /\ MainView /\ CanStart(seq)
  /\ \E k \in 1..Len(folders) : folders[k].id = folderId
  /\ ev' = Ev("handleDeleteFolder", "called", TRUE, "", folderId, 0, FALSE)
  /\ IF IsDefaultFolder(folders, folderId)
       THEN UnchangedStore /\ UNCHANGED tasks
       ELSE LET bookmarksInFolder == Filter(bookmarks, LAMBDA b : b.folder_id = folderId) IN
            /\ \E net \in BOOLEAN :
                 LET out == StoreAfter(DeleteFolderCall(folderId, bookmarksInFolder), net) IN
                 /\ Commit(out, authEvents)
                 /\ SetTask(FreeSlot,
                            Await([IdleTask EXCEPT !.kind = "deleteFolder", !.id = folderId,
                                                   !.bm = bookmarks, !.fl = folders,
                                                   !.sel = selectedFolder,
                                                   !.todo = IF bookmarksInFolder = <<>> THEN <<>>
                                                            ELSE Tail(bookmarksInFolder)],
                                  IF bookmarksInFolder = <<>> THEN "df_delete" ELSE "df_update",
                                  out))
  /\ UNCHANGED <<mirrorVars, nextGenerated, hShare, hLoaded, hOnboarded>>
  /\ opCount' = opCount + 1
  /\ Rerender

\* handleDeleteFolder resumes from one bookmarksService.update of its loop
DeleteFolderUpdateResume(i) ==
  LET t == tasks[i] IN
  /\ t.kind = "deleteFolder" /\ t.pc = "df_update"
  /\ ev' = Ev("handleDeleteFolder", "df_update", t.res.ok, t.res.err, t.id, 0, FALSE)
  /\ IF t.res.ok
       THEN \E net \in BOOLEAN :
              LET out == StoreAfter(DeleteFolderCall(t.id, t.todo), net) IN
              /\ Commit(out, authEvents)
              /\ SetTask(i, Await([t EXCEPT !.todo = IF t.todo = <<>> THEN <<>> ELSE Tail(t.todo)],
                                  IF t.todo = <<>> THEN "df_delete" ELSE "df_update", out))
       ELSE /\ SetTask(i, IdleTask)
            /\ UnchangedStore
  /\ UNCHANGED <<mirrorVars, nextGenerated, hShare, hLoaded, hOnboarded>>
  /\ UNCHANGED opCount
  /\ Rerender

\* the folders and bookmarks states after handleDeleteFolder has succeeded
FoldersAfterDeleteFolder(closure, folderId) ==
  Filter(closure, LAMBDA f : f.id # folderId)

\* a cascade: the folder's bookmarks leave the mirror with it
BookmarksAfterDeleteFolderCascade(closure, folderId) ==
  Filter(closure, LAMBDA b : b.folder_id # folderId)

BookmarksAfterDeleteFolder(closure, folderId) ==
  Map(closure, LAMBDA b : IF b.folder_id = folderId THEN [b EXCEPT !.folder_id = NULL] ELSE b)

\* the statements after the awaits run whatever the call returned
ReachedAlways(res) == TRUE

\* try/catch: the statements after an await run unless the call threw
Reached(res) == res.ok

\* handleDeleteFolder resumes from foldersService.delete
DeleteFolderResume(i) ==
  LET t == tasks[i] IN
  /\ t.kind = "deleteFolder" /\ t.pc = "df_delete"
  /\ ev' = Ev("handleDeleteFolder", "df_delete", t.res.ok, t.res.err, t.id,
              Len(Filter(t.bm, LAMBDA b : b.folder_id = t.id)), FALSE)
  /\ IF Reached(t.res)
       THEN /\ folders' = FoldersAfterDeleteFolder(t.fl, t.id)
            /\ bookmarks' = BookmarksAfterDeleteFolder(t.bm, t.id)
            /\ selectedFolder' = IF t.sel = t.id THEN ALL ELSE selectedFolder
       ELSE UNCHANGED <<folders, bookmarks, selectedFolder>>
  /\ SetTask(i, IdleTask)
  /\ UnchangedStore
  /\ UNCHANGED <<currentUser, shareModal, loading, urlError, isLoadingMetadata,
                 authError, authLoading, nextGenerated, hShare, hLoaded, hOnboarded>>
  /\ UNCHANGED opCount
  /\ Rerender

\* a click on a folder row: setSelectedFolder(folder.id)
SelectFolder(folderId) ==
  /\ MainView
  /\ \E k \in 1..Len(folders) : folders[k].id = folderId
  /\ selectedFolder # folderId
  /\ opCount < MaxOps
  /\ selectedFolder' = folderId
  /\ ev' = Quiet
  /\ UnchangedStore
  /\ UNCHANGED <<currentUser, bookmarks, folders, shareModal, loading, urlError,
                 isLoadingMetadata, authError, authLoading, nextGenerated, tasks,
                 hShare, hLoaded, hOnboarded>>
  /\ opCount' = opCount + 1
  /\ Rerender

\* ------------------------------------------------------------ specification
FolderNameInputs == {<<>>, <<" ">>, <<"Work">>}
AuthEmails == {"", "owner@example.com"}
AuthPasswords == {"", "secret"}
TagInputs == {"", "x", "y"}

Next(seq) ==
  \/ Reload(seq)
  \/ AuthStateChange
  \/ \E i \in Slots : CheckSessionResume(i)
  \/ \E i \in Slots : LoadFoldersResume(i)
  \/ \E i \in Slots : LoadCreateResume(i)
  \/ \E i \in Slots : LoadBookmarksResume(i)
  \/ \E mode \in {"signIn", "signUp"}, user \in Users,
          authEmail \in AuthEmails, authPassword \in AuthPasswords :
       HandleAuth(seq, mode, user, authEmail, authPassword)
  \/ \E i \in Slots : SignInResume(i)
  \/ \E i \in Slots : SignUpResume(i)
  \/ \E i \in Slots : SignUpCreateResume(i)
  \/ HandleLogout(seq)
  \/ \E i \in Slots : LogoutResume(i)
  \/ \E urlInput \in UrlInputs : HandleAddBookmark(seq, urlInput)
  \/ \E i \in Slots : AddCheckedResume(i)
  \/ \E i \in Slots : AddCreatedResume(i)
  \/ \E id \in 1..MaxBookmarkId : HandleDeleteBookmark(seq, id)
  \/ \E i \in Slots : DeleteBookmarkResume(i)
  \/ \E id \in 1..MaxBookmarkId : HandleTogglePrivacy(seq, id)
  \/ \E k \in 1..MaxBookmarkId, f \in 1..MaxFolderId : HandleDropOnFolder(seq, k, f)
  \/ \E id \in 1..MaxBookmarkId, tag \in TagInputs, picked \in BOOLEAN :
       HandleAddTag(seq, id, tag, picked)
  \/ \E id \in 1..MaxBookmarkId, tag \in TagInputs : HandleRemoveTag(seq, id, tag)
  \/ \E i \in Slots : UpdateResume(i)
  \/ \E k \in 1..MaxBookmarkId : HandleShareBookmark(seq, k)
  \/ \E i \in Slots : ShareResume(i)
  \/ CloseShareModal
  \/ \E name \in FolderNameInputs : HandleAddFolder(seq, name)
  \/ \E i \in Slots : AddFolderResume(i)
  \/ \E f \in 1..MaxFolderId : HandleDeleteFolder(seq, f)
  \/ \E i \in Slots : DeleteFolderUpdateResume(i)
  \/ \E i \in Slots : DeleteFolderResume(i)
  \/ \E f \in 1..MaxFolderId : SelectFolder(f)

\* handlers may overlap: a user operation may start while others are in flight
Spec == Init /\ [][Next(FALSE)]_vars

\* user operations do not overlap: each starts once the last has completed
SeqSpec == Init /\ [][Next(TRUE)]_vars

\* a pending remote call of the handler in slot i resolves and the handler
\* runs on to its next await or its return
Resolve(i) ==
  \/ CheckSessionResume(i) \/ LoadFoldersResume(i) \/ LoadCreateResume(i)
  \/ LoadBookmarksResume(i)
  \/ SignInResume(i) \/ SignUpResume(i) \/ SignUpCreateResume(i) \/ LogoutResume(i)
  \/ AddCheckedResume(i) \/ AddCreatedResume(i) \/ DeleteBookmarkResume(i)
  \/ UpdateResume(i) \/ ShareResume(i) \/ AddFolderResume(i)
  \/ DeleteFolderUpdateResume(i) \/ DeleteFolderResume(i)

\* every remote call resolves in the end, and every auth-state event is
\* delivered to the listener
Fairness == (\A i \in Slots : WF_vars(Resolve(i))) /\ WF_vars(AuthStateChange)

\* user operations one at a time; the auth listener's load still runs beside
\* the handler that caused the event
LiveSpec == Init /\ [][Next(TRUE)]_vars /\ Fairness

\* ------------------------------------------------- the functions on their own
\* Everything but the inputs of the function under study: owner 1 signed in,
\* nothing in flight.
AtRest ==
  /\ accounts = {1} /\ session = 1 /\ triggerOn = TRUE
  /\ dbFolders = <<>> /\ dbBookmarks = <<>>
  /\ nextFolderId = 1 /\ nextBookmarkId = 1
  /\ currentUser = 1 /\ shareModal = NoModal /\ loading = FALSE
  /\ urlError = ErrNone /\ isLoadingMetadata = FALSE
  /\ authError = ErrNone /\ authLoading = FALSE
  /\ nextGenerated = 1
  /\ authEvents = <<>>
  /\ tasks = [i \in Slots |-> IdleTask]
  /\ ev = Quiet
  /\ hShare = [b \in 1..MaxBookmarkId |-> [calls |-> 0, shown |-> <<>>]]
  /\ hLoaded = FALSE
  /\ hOnboarded = {}
  /\ opCount = 0

restVars == <<storeVars, currentUser, shareModal, loading, urlError, isLoadingMetadata,
              authError, authLoading, nextGenerated, authEvents, tasks, ev,
              hShare, hLoaded, hOnboarded, opCount>>

\* texts of up to MaxUrlLen tokens
UrlTokens == {"https", "httpbin", "ftp", "javascript", "a", ":", "//", "/", " "}
UrlTexts == UNION {[1..n -> UrlTokens] : n \in 0..MaxUrlLen}

UrlInit ==
  /\ AtRest
  /\ bookmarks = <<>> /\ folders = <<>> /\ selectedFolder = ALL
  /\ filterQuery = <<>>
  /\ memo = FirstMemo(bookmarks, folders, selectedFolder, filterQuery)
  /\ urlString \in UrlTexts
  /\ urlChecked = NotChecked

\* isValidUrl, normalizeUrl and the add form's validation, applied to urlString
CheckUrl ==
  /\ ~urlChecked.done
  /\ urlChecked' = [done |-> TRUE,
                    valid |-> isValidUrl(urlString),
                    href |-> normalizeUrl(urlString),
                    error |-> ValidationError(urlString)]
  /\ UNCHANGED <<restVars, bookmarks, folders, selectedFolder, filterQuery, memo, urlString>>

UrlNext == CheckUrl

UrlSpec == UrlInit /\ [][UrlNext]_vars

\* the fields of a bookmark that filteredBookmarks reads
ViewBookmark(id, folderId, title, description, url, tags) ==
  [id |-> id, folder_id |-> folderId, title |-> title, description |-> description,
   url |-> url, tags |-> tags]

\* one bookmark per way of matching a query: by title, by description, by url,
\* by a tag; descriptions absent, empty and present
ViewSamples ==
  { ViewBookmark(1, 2, <<"A">>, <<>>, <<"c">>, <<>>),
    ViewBookmark(2, NULL, <<"c">>, << <<"a", "b">> >>, <<"c">>, <<>>),
    ViewBookmark(3, 2, <<"c">>, << <<>> >>, <<"b">>, <<>>),
    ViewBookmark(4, 3, <<"c">>, <<>>, <<"c">>, << <<"c">>, <<"A", " ">> >>) }

\* lists of up to MaxViewLen bookmarks, no bookmark twice
ViewBookmarkLists ==
  { bs \in UNION {[1..n -> ViewSamples] : n \in 0..MaxViewLen} :
      \A i, j \in 1..Len(bs) : i # j => bs[i].id # bs[j].id }

ViewFolderLists ==
  { <<>>,
    <<Folder(1, 1, DefaultName, TRUE)>>,
    <<Folder(1, 1, DefaultName, TRUE), Folder(2, 1, <<"Work">>, FALSE)>>,
    <<Folder(1, 1, DefaultName, TRUE), Folder(2, 1, DefaultName, TRUE)>>,
    <<Folder(1, 1, DefaultName, TRUE), Folder(2, 1, <<"Work">>, FALSE),
      Folder(3, 1, <<"Read">>, FALSE)>> }

ViewSelections == {ALL} \cup 1..MaxFolderId

Queries ==
  { <<>>, <<" ">>, <<"a">>, <<"A">>, <<"b">>, <<"a", " ">>, <<"A", "b">> }

\* the first render after the mirror was loaded: nothing selected or typed yet
ViewInit ==
  /\ AtRest
  /\ bookmarks \in ViewBookmarkLists
  /\ folders \in ViewFolderLists
  /\ selectedFolder = ALL
  /\ filterQuery = <<>>
  /\ memo = FirstMemo(bookmarks, folders, selectedFolder, filterQuery)
  /\ urlString = <<>> /\ urlChecked = NotChecked

\* the search box changes
SetFilterQuery(value) ==
  /\ filterQuery' = value
  /\ UNCHANGED <<bookmarks, folders, selectedFolder>>
  /\ Render
  /\ UNCHANGED <<restVars, urlString, urlChecked>>

\* a folder of the sidebar is clicked
SetSelectedFolder(folderId) ==
  /\ selectedFolder' = folderId
  /\ UNCHANGED <<bookmarks, folders, filterQuery>>
  /\ Render
  /\ UNCHANGED <<restVars, urlString, urlChecked>>

\* a handler replaces the mirror's bookmarks
SetBookmarks(bs) ==
  /\ bookmarks' = bs
  /\ UNCHANGED <<folders, selectedFolder, filterQuery>>
  /\ Render
  /\ UNCHANGED <<restVars, urlString, urlChecked>>

\* a handler replaces the mirror's folders
SetFolders(fs) ==
  /\ folders' = fs
  /\ UNCHANGED <<bookmarks, selectedFolder, filterQuery>>
  /\ Render
  /\ UNCHANGED <<restVars, urlString, urlChecked>>

ViewNext ==
  \/ \E value \in Queries : SetFilterQuery(value)
  \/ \E folderId \in ViewSelections : SetSelectedFolder(folderId)
  \/ \E bs \in ViewBookmarkLists : SetBookmarks(bs)
  \/ \E fs \in ViewFolderLists : SetFolders(fs)

ViewSpec == ViewInit /\ [][ViewNext]_vars

\* ------------------------------------------------------------------ claims
\* ids of the rows of a sequence
Ids(rows) == {rows[k].id : k \in 1..Len(rows)}

\* the store's rows of an owner
Owned(rows, userId) == {rows[k] : k \in {j \in 1..Len(rows) : rows[j].user_id = userId}}

\* C1: after any sequence of non-overlapping user operations, each run to
\* completion whether its remote calls succeed or fail, the mirror of a
\* signed-in owner whose data has been loaded holds exactly the store's
\* folders and bookmarks of that owner: the same ids, and for every bookmark
\* the same folder_id and share_id as the store's copy.
C1_MirrorEqualsStore ==
  (Quiescent /\ currentUser # NULL /\ hLoaded) =>
    /\ Ids(folders) = {f.id : f \in Owned(dbFolders, currentUser)}
    /\ Ids(bookmarks) = {b.id : b \in Owned(dbBookmarks, currentUser)}
    /\ \A k \in 1..Len(bookmarks) :
         \E b \in Owned(dbBookmarks, currentUser) :
           /\ b.id = bookmarks[k].id
           /\ b.folder_id = bookmarks[k].folder_id
           /\ b.share_id = bookmarks[k].share_id

\* the default folders an owner has in the store
DefaultFolders(userId) == {f \in Owned(dbFolders, userId) : f.is_default}

\* C2: in every reachable state of the store, each owner who has completed a
\* first login or signup has exactly one folder with is_default = true.
C2_OneDefaultFolder ==
  \A u \in hOnboarded : Cardinality(DefaultFolders(u)) = 1

C4_StoreRejectionSurfaced ==
  [][(/\ ev'.op = "handleAddBookmark" /\ ev'.pc = "create"
      /\ ev'.err = "duplicate key value violates unique constraint")
       => (urlError' = ErrExists /\ bookmarks' = bookmarks)]_vars

\* the pre-check had nothing to find at submission and the store still rejected
C4_Witness ==
  /\ ev.op = "handleAddBookmark" /\ ev.pc = "create" /\ ~ev.dup
  /\ ev.err = "duplicate key value violates unique constraint"
  /\ urlError = ErrExists

\* C5: if the update that persists a newly generated share_id fails,
\* handleShareBookmark does not open the share modal.
C5_NoModalOnFailure ==
  (ev.op = "handleShareBookmark" /\ ev.pc = "bm_update" /\ ~ev.ok) =>
    shareModal = NoModal

\* C6: invoking handleShareBookmark twice on the same bookmark shows the
\* identical share_id both times and issues exactly one update call carrying
\* a share_id in total.
C6_ShareIdempotent ==
  \A b \in DOMAIN hShare :
    Len(hShare[b].shown) = 2 =>
      (hShare[b].shown[1] = hShare[b].shown[2] /\ hShare[b].calls = 1)

\* C7: once a bookmark's share_id in the store is non-null, no step changes
\* it to a different value or back to null while the bookmark exists.
C7_ShareIdImmutable ==
  [][\A i \in 1..Len(dbBookmarks), j \in 1..Len(dbBookmarks') :
       (dbBookmarks[i].share_id # NULL /\ dbBookmarks'[j].id = dbBookmarks[i].id)
         => dbBookmarks'[j].share_id = dbBookmarks[i].share_id]_vars

\* C8: if a fetch inside loadUserData fails, both mirror sequences are empty
\* when loadUserData returns.
C8_LoadFailureEmptiesMirror ==
  (ev.op = "loadUserData" /\ ~ev.ok) => (folders = <<>> /\ bookmarks = <<>>)

C10_DefaultFolderKept ==
  [][/\ (/\ ev'.op = "handleDeleteFolder" /\ ev'.pc = "called"
         /\ \E k \in 1..Len(folders) : folders[k].id = ev'.id /\ folders[k].is_default)
          => (/\ tasks' = tasks
              /\ dbFolders' = dbFolders /\ dbBookmarks' = dbBookmarks
              /\ folders' = folders /\ bookmarks' = bookmarks
              /\ selectedFolder' = selectedFolder)
     /\ \A i \in 1..Len(dbFolders) :
          dbFolders[i].is_default => dbFolders[i].id \in Ids(dbFolders')]_vars

\* the handler has been called on the default folder
C10_Witness ==
  /\ ev.op = "handleDeleteFolder" /\ ev.pc = "called"
  /\ \E k \in 1..Len(folders) : folders[k].id = ev.id /\ folders[k].is_default
  /\ \A i \in Slots : tasks[i].kind # "deleteFolder"

\* where a handler stands
At(t) == <<t.kind, t.pc>>

\* the single-call mutation handlers, by the kind of their task
MutationKinds == {"addBookmark", "addFolder", "update", "share", "deleteBookmark"}

\* the step is one in which a single-call mutation handler ends
MutationEnds(e) ==
  \/ e.op = "handleAddBookmark" /\ e.pc = "create"
  \/ e.op = "handleAddFolder" /\ e.pc = "fl_create"
  \/ e.op \in {"handleUpdateBookmark", "handleShareBookmark"} /\ e.pc = "bm_update"
  \/ e.op = "handleDeleteBookmark" /\ e.pc = "bm_delete"

\* C11: when the remote call of a single-call mutation (create, update or
\* delete of a bookmark, create of a folder) fails, no step of the handler
\* changes the mirror's folders or bookmarks: neither the step that issues
\* the call nor the step in which the handler takes the failure and returns.
C11_FailedMutationKeepsMirror ==
  [][/\ (MutationEnds(ev') /\ ~ev'.ok) => (bookmarks' = bookmarks /\ folders' = folders)
     /\ (\E i \in Slots : tasks'[i].kind \in MutationKinds /\ At(tasks'[i]) # At(tasks[i]))
          => (bookmarks' = bookmarks /\ folders' = folders)]_vars

\* an update has failed with both bookmarks in the mirror
C11_Witness ==
  /\ ev.op = "handleUpdateBookmark" /\ ev.pc = "bm_update" /\ ~ev.ok
  /\ Len(bookmarks) = 2

\* the store's row with an id
RowOf(rows, id) == CHOOSE r \in Range(rows) : r.id = id

Blank(text) == \A k \in 1..Len(text) : text[k] = " "

\* C17: a submission that fails local validation issues no remote call:
\* handleAddBookmark with an empty, whitespace-only or invalid URL,
\* handleAddFolder with an empty or whitespace-only name, handleAuth with an
\* empty email or password.
C17_InvalidInputNoCall ==
  [][(/\ ev'.pc = "submit"
      /\ \/ ev'.op = "handleAddBookmark" /\ (Blank(ev'.input) \/ ~isValidUrl(ev'.input))
         \/ ev'.op = "handleAddFolder" /\ Blank(ev'.input)
         \/ ev'.op = "handleAuth" /\ (ev'.input[1] = "" \/ ev'.input[2] = ""))
       => (tasks' = tasks /\ UNCHANGED storeVars)]_vars

\* a whitespace-only folder name has been submitted
C17_Witness ==
  /\ ev.op = "handleAddFolder" /\ ev.pc = "submit" /\ ev.input = <<" ">>
  /\ Quiescent

\* a text that reads as a URL whose scheme is neither http nor https
OtherSchemes == {"ftp", "javascript"}
NonHttpScheme(text) ==
  ParseUrl(text).ok /\ ParseUrl(text).protocol \in OtherSchemes

Https(text) == <<"https", ":", "//">> \o text

\* a text no URL can be read from, as typed or with https:// put before it
Unparsable(text) == ~ParseUrl(text).ok /\ ~ParseUrl(Https(Trim(text))).ok

\* C15: for every input with a scheme other than http or https (ftp://x,
\* javascript:...) and every unparsable text, isValidUrl is false and
\* normalizeUrl yields no URL, and handleAddBookmark's validation rejects the
\* input with the invalid-URL error.
C15_NonHttpRejected ==
  (/\ urlChecked.done
   /\ ~Blank(urlString)
   /\ (NonHttpScheme(urlString) \/ Unparsable(urlString)))
  => (/\ ~urlChecked.valid
      /\ urlChecked.href = <<>>
      /\ urlChecked.error = ErrInvalidUrl)

\* u is a valid absolute https URL
ValidHttps(u) ==
  Len(u) > 3 /\ SubSeq(u, 1, 3) = <<"https", ":", "//">> /\ ParseUrl(u).ok

\* C16: for every valid absolute https URL u and the text s that is u without
\* its "https://" prefix, with or without whitespace around s, normalizeUrl(s)
\* = normalizeUrl(u) and isValidUrl(s) = isValidUrl(u) = true; hosts beginning
\* with "http" included.
C16_SchemeOptional ==
  LET u == Https(Trim(urlString)) IN
  (urlChecked.done /\ ValidHttps(u))
  => (/\ isValidUrl(u)
      /\ urlChecked.valid
      /\ urlChecked.href = normalizeUrl(u))

\* the selection is 'all' or the id of a default folder of the mirror
ShowsAll ==
  \/ selectedFolder = ALL
  \/ \E k \in 1..Len(folders) : folders[k].id = selectedFolder /\ folders[k].is_default

InSelectedFolder(b) == b.folder_id = selectedFolder

\* C18: filteredBookmarks applies no folder filtering when selectedFolder is
\* 'all' or the id of a default folder; for any other selectedFolder it keeps
\* exactly the bookmarks whose folder_id equals selectedFolder (before the text
\* step).
C18_FolderFilter ==
  /\ ShowsAll => memo.value = TextStep(bookmarks, filterQuery)
  /\ (ShowsAll /\ Blank(filterQuery)) => memo.value = bookmarks
  /\ ~ShowsAll =>
       /\ \A k \in 1..Len(memo.value) : InSelectedFolder(memo.value[k])
       /\ Blank(filterQuery) => memo.value = SelectSeq(bookmarks, InSelectedFolder)

C18_Witness ==
  /\ ~ShowsAll /\ Blank(filterQuery)
  /\ \E k \in 1..Len(folders) : folders[k].id = selectedFolder
  /\ Len(memo.value) > 0 /\ Len(memo.value) < Len(bookmarks)

\* query occurs in text at some position
OccursIn(query, text) ==
  \E i \in 1..(Len(text) - Len(query) + 1) : SubSeq(text, i, i + Len(query) - 1) = query

\* the lowercased query occurs in the lowercased title, description (when
\* there is one), url, or a tag
Found(b) ==
  LET q == ToLowerCase(filterQuery) IN
  \/ OccursIn(q, ToLowerCase(b.title))
  \/ \E k \in 1..Len(b.description) : OccursIn(q, ToLowerCase(b.description[k]))
  \/ OccursIn(q, ToLowerCase(b.url))
  \/ \E k \in 1..Len(b.tags) : OccursIn(q, ToLowerCase(b.tags[k]))

\* C19: filteredBookmarks applies no text filtering when filterQuery is empty
\* or whitespace only; otherwise a bookmark that passed the folder step is kept
\* exactly when the lowercased query is a substring of its lowercased title,
\* description (when present), url, or one of its tags.
C19_TextFilter ==
  LET passed == FolderStep(bookmarks, folders, selectedFolder) IN
  IF Blank(filterQuery)
    THEN memo.value = passed
    ELSE memo.value = SelectSeq(passed, Found)

C19_Witness ==
  /\ ~Blank(filterQuery) /\ filterQuery # ToLowerCase(filterQuery)
  /\ Len(memo.value) > 0
  /\ Len(memo.value) < Len(FolderStep(bookmarks, folders, selectedFolder))

RECURSIVE IsSubsequence(_, _)
IsSubsequence(a, b) ==
  IF a = <<>> THEN TRUE
  ELSE IF b = <<>> THEN FALSE
  ELSE IF Head(a) = Head(b) THEN IsSubsequence(Tail(a), Tail(b))
  ELSE IsSubsequence(a, Tail(b))

\* C20: filteredBookmarks is a subsequence of the mirror's bookmarks (order
\* kept, no bookmark twice or altered) and a function of bookmarks, folders,
\* selectedFolder and filterQuery alone: the value on screen is what a fresh
\* evaluation on the current inputs gives, whatever was evaluated before.
C20_PureSubsequence ==
  /\ IsSubsequence(memo.value, bookmarks)
  /\ \A i, j \in 1..Len(memo.value) : i # j => memo.value[i].id # memo.value[j].id
  /\ memo.value = filteredBookmarks(bookmarks, folders, selectedFolder, filterQuery)

C20_Witness ==
  /\ Len(memo.value) >= 2 /\ Len(memo.value) < Len(bookmarks)
  /\ memo.value[1] # bookmarks[1]

HandleAuthPending == \E i \in Slots : tasks[i].kind \in {"login", "signup"}

\* C21: after handleAuth's signIn or signUp step fails, currentUser is null,
\* authError is set and handleAuth has issued no folder or bookmark call;
\* after an error in a later step of signup, and after an auth-state event
\* without a session, currentUser is null and both mirror sequences are empty.
C21_AuthFailureSignedOut ==
  /\ (ev.op = "handleAuth" /\ ev.pc \in {"signIn", "signUp"} /\ ~ev.ok)
       => (currentUser = NULL /\ authError # ErrNone /\ ~HandleAuthPending)
  /\ (ev.op = "handleAuth" /\ ev.pc = "su_create" /\ ~ev.ok)
       => (currentUser = NULL /\ bookmarks = <<>> /\ folders = <<>>)
  /\ (ev.op = "onAuthStateChange" /\ ev.id = NULL)
       => (currentUser = NULL /\ bookmarks = <<>> /\ folders = <<>>)

NoTagTwice(tags) == \A i, j \in 1..Len(tags) : i # j => tags[i] # tags[j]

\* C22: in every reachable state no bookmark of the mirror or of the store
\* has the same tag string twice in its tags, whatever handleAddTag (typed or
\* picked) and handleRemoveTag operations have run, and none has an empty tag.
C22_TagsDistinct ==
  /\ \A k \in 1..Len(bookmarks) :
       NoTagTwice(bookmarks[k].tags) /\ "" \notin Range(bookmarks[k].tags)
  /\ \A k \in 1..Len(dbBookmarks) :
       NoTagTwice(dbBookmarks[k].tags) /\ "" \notin Range(dbBookmarks[k].tags)

\* a bookmark of the mirror has had two tags added, and a tag it has was
\* submitted again
C22_Witness ==
  /\ ev.op = "handleAddTag"
  /\ \E k \in 1..Len(bookmarks) :
       Len(bookmarks[k].tags) = 2 /\ ev.input[1] \in Range(bookmarks[k].tags)

\* the entry of a sequence of rows with the given id: <<>> when there is none
EntryOf(rows, id) == SelectSeq(rows, LAMBDA b : b.id = id)

BookmarkMutationEnds ==
  { <<"addBookmark", "create">>, <<"deleteBookmark", "bm_delete">>, <<"update", "bm_update">> }

\* the id of the bookmark a mutation that succeeded is about
TargetId(t) == IF t.kind = "addBookmark" THEN t.res.rows[1].id ELSE t.id

\* the last step applied a successful bookmark mutation to the mirror
MutationApplied ==
  ev.pc \in {"create", "bm_delete", "bm_update"} /\ ev.ok /\ ev.id # NULL

\* task i, a mutation issued before the last step's mutation resolved (its
\* closure does not show that effect), now resolves with success
SecondResolves(i) ==
  LET t == tasks[i] IN
  /\ At(t) \in BookmarkMutationEnds
  /\ t.res.ok
  /\ At(tasks'[i]) # At(t) /\ ev'.pc = t.pc
  /\ MutationApplied
  /\ EntryOf(t.bm, ev.id) # EntryOf(bookmarks, ev.id)

\* the mirror after the step shows the effect of the mutation of t
EffectShown(t) ==
  LET now == EntryOf(bookmarks', TargetId(t)) IN
  IF t.kind = "addBookmark" THEN now = <<t.res.rows[1]>>
  ELSE IF t.kind = "deleteBookmark" THEN now = <<>>
  ELSE EntryOf(bookmarks, t.id) # <<>> => now = <<t.res.rows[1]>>

\* C23: when two mutations on different bookmark ids were in flight together
\* and both calls succeeded, then once the second has resolved the mirror
\* shows both effects: the first is not lost (a bookmark it removed does not
\* come back, one it added or changed stays as it was) and the second is there.
C23_BothEffectsKept ==
  [][\A i \in Slots :
       (SecondResolves(i) /\ TargetId(tasks[i]) # ev.id)
       => (/\ EntryOf(bookmarks', ev.id) = EntryOf(bookmarks, ev.id)
           /\ EffectShown(tasks[i]))]_vars

\* C24: when two mutations on the same bookmark id were in flight together,
\* the mirror follows the order in which their calls resolve: after two
\* updates it holds the record the later-resolving call returned, and after
\* a delete that resolved with success an update of that id resolving later
\* does not put the bookmark back.
C24_ResolveOrderSameId ==
  [][\A i \in Slots :
       (SecondResolves(i) /\ TargetId(tasks[i]) = ev.id)
       => LET t == tasks[i]
              now == EntryOf(bookmarks', t.id) IN
          /\ (t.kind = "update" /\ ev.pc = "bm_update") => now = <<t.res.rows[1]>>
          /\ (t.kind = "update" /\ ev.pc = "bm_delete") => now = <<>>
          /\ t.kind = "deleteBookmark" => now = <<>>]_vars

FolderIds(bs) == [k \in 1..Len(bs) |-> <<bs[k].id, bs[k].folder_id>>]

\* C25: if a remote call of handleDeleteFolder fails (an update of one of the
\* folder's bookmarks or the folder's delete, wherever in the sequence), then
\* at the handler's return the mirror's folders, each mirrored bookmark's
\* folder_id and selectedFolder are what they were when the handler started
\* (selectedFolder: what the user's own clicks since then have made it).
C25_FailedDeleteFolderKeepsMirror ==
  [][\A i \in Slots :
       LET t == tasks[i] IN
       (/\ t.kind = "deleteFolder" /\ ~t.res.ok
        /\ At(tasks'[i]) # At(t) /\ ev'.op = "handleDeleteFolder" /\ ev'.pc = t.pc)
       => (/\ folders' = t.fl
           /\ FolderIds(bookmarks') = FolderIds(t.bm)
           /\ selectedFolder' = selectedFolder)]_vars

\* the folder's delete failed after the update of a bookmark of the folder
\* had gone through: the store has unfiled it, the mirror has not
C25_Witness ==
  /\ ev.op = "handleDeleteFolder" /\ ev.pc = "df_delete" /\ ~ev.ok /\ ev.n > 0
  /\ \E k \in 1..Len(bookmarks) : bookmarks[k].folder_id = ev.id
  /\ \E k \in 1..Len(folders) : folders[k].id = ev.id

\* the tasks of the handlers that change bookmarks or folders
HandlerKinds == MutationKinds \cup {"deleteFolder"}

\* where a handler awaits the call whose result it applies to the mirror
LastCalls ==
  { <<"addBookmark", "create">>, <<"addFolder", "fl_create">>, <<"update", "bm_update">>,
    <<"share", "bm_update">>, <<"deleteBookmark", "bm_delete">>, <<"deleteFolder", "df_delete">> }

\* the step is one of the handler in slot i: it issues a call (the task is in
\* flight afterwards) or takes a response and returns
HandlerStep(i) ==
  /\ At(tasks'[i]) # At(tasks[i])
  /\ \/ tasks'[i].kind \in HandlerKinds
     \/ tasks[i].kind \in HandlerKinds /\ tasks'[i].kind = "idle" /\ ev'.pc = tasks[i].pc

\* C26: no mutation handler changes the mirror while a call of its own is in
\* flight: a step of handleAddBookmark, handleUpdateBookmark,
\* handleDeleteBookmark, handleAddFolder or handleDeleteFolder that changes
\* bookmarks or folders is the step that takes the successful response of the
\* handler's last remote call and returns.
C26_MirrorChangesAfterResolve ==
  [][\A i \in Slots :
       (HandlerStep(i) /\ (bookmarks' # bookmarks \/ folders' # folders))
       => (/\ At(tasks[i]) \in LastCalls
           /\ tasks[i].res.ok
           /\ tasks'[i].kind = "idle")]_vars

\* a created bookmark has just been put into the mirror while another
\* handler's call is still in flight
C26_Witness ==
  /\ ev.op = "handleAddBookmark" /\ ev.pc = "create" /\ ev.ok
  /\ bookmarks # <<>> /\ bookmarks[1].id = ev.id
  /\ \E i \in Slots : tasks[i].kind \in HandlerKinds

\* a run of checkSession, loadUserData, handleAuth or handleAddBookmark is
\* under way
Running ==
  \E i \in Slots : tasks[i].kind \in {"checkSession", "listener", "login", "signup", "addBookmark"}

Busy == loading \/ authLoading \/ isLoadingMetadata

\* C27: if every remote call resolves in the end, every run of checkSession,
\* loadUserData, handleAuth and handleAddBookmark terminates and afterwards
\* loading, authLoading and isLoadingMetadata are all false, on the success
\* path and on every failure path.
C27_BusyEnds == (Running \/ Busy) ~> (~Running /\ ~Busy)

\* handleAddBookmark has run into a failed create and returned, nothing is
\* busy
C27_Witness ==
  /\ ev.op = "handleAddBookmark" /\ ev.pc = "create" /\ ~ev.ok
  /\ ~Running /\ ~Busy

\* C28: whenever currentUser is null both mirror sequences are empty, and
\* every folder and bookmark of the mirror has the current user's id as its
\* user_id, also when a load or a mutation issued before a sign-out resolves
\* after it.
C28_MirrorBelongsToUser ==
  /\ currentUser = NULL => (bookmarks = <<>> /\ folders = <<>>)
  /\ \A k \in 1..Len(bookmarks) : bookmarks[k].user_id = currentUser
  /\ \A k \in 1..Len(folders) : folders[k].user_id = currentUser

\* C29: in every reachable state with no operation in flight, selectedFolder
\* is 'all' or the id of a folder of the mirror: it is back at 'all' once the
\* selected folder has been deleted (also if it was selected while the
\* deletion was in flight), after logout, and after an auth-state event
\* without a session has cleared the mirror.
C29_SelectionExists ==
  Quiescent =>
    \/ selectedFolder = ALL
    \/ \E k \in 1..Len(folders) : folders[k].id = selectedFolder

\* C30: in every reachable state the mirror's bookmarks hold no two entries
\* with the same id and no two with the same url, as the store's rows of one
\* user do, whatever loads, adds, updates and deletes have run and however
\* they interleaved.
C30_MirrorEntriesUnique ==
  \A i, j \in 1..Len(bookmarks) :
    i # j => (bookmarks[i].id # bookmarks[j].id /\ bookmarks[i].url # bookmarks[j].url)

====
